---- MODULE Spec2Model ----
(***************************************************************************)
(* Repetition detection (analysis/exercise_rules.py, ShoulderPressRules)   *)
(* and the per-frame loop of cyber_trainer/camera.py (main) that feeds it  *)
(* and reconciles the two views.                                           *)
(*                                                                         *)
(* Angles are whole degrees.  An optional value (Python None or a value)   *)
(* is the empty or the one-element sequence.                               *)
(***************************************************************************)
EXTENDS Integers, Sequences, FiniteSets, TLC

(***************************************************************************)
(* Bounds of the model.  The three window sizes of the program are scaled  *)
(* down so that every sequence of samples over a whole detection window    *)
(* can be enumerated; the source values are 10, 200 and 300.  The order    *)
(* 2*PEAK_DETECTION_WINDOW+1 <= HISTORY_CAPACITY of the source is kept.    *)
(* MaxFrame and MaxDualFrame bound the iterations of the loop of main in   *)
(* single-view and in dual-view mode.                                      *)
(***************************************************************************)
PEAK_DETECTION_WINDOW == 1
HISTORY_CAPACITY == 4
SYNC_FRAME_THRESHOLD == 2
MaxFrame == 7
MaxDualFrame == 6
MaxSummaryCalls == 2
GridSteps == 36
max_consecutive_errors == 3
StreamErrorCap == 4
MaxThreads == 2
MaxBackends == 2

(***************************************************************************)
(* Program constants.                                                      *)
(***************************************************************************)
MIN_ROM == 100
TOLERANCE == 20

None == <<>>
Some(v) == <<v>>
Val(o) == o[1]

Views == {"front", "side"}

\* exercise_rules.py: class attribute tables
FRONT_VIEW_RANGES ==
  [left_shoulder |-> <<35, 180>>, right_shoulder |-> <<35, 180>>,
   left_elbow |-> <<35, 180>>, right_elbow |-> <<35, 180>>]

SIDE_VIEW_RANGES ==
  [left_shoulder |-> <<0, 160>>, left_elbow |-> <<8, 180>>,
   left_hip |-> <<100, 133>>]

FRONT_VIEW_ROM_THRESHOLDS ==
  [left_shoulder |-> <<50, 150>>, right_shoulder |-> <<50, 150>>,
   left_elbow |-> <<50, 160>>, right_elbow |-> <<50, 160>>]

SIDE_VIEW_ROM_THRESHOLDS ==
  [left_shoulder |-> <<10, 140>>, left_elbow |-> <<20, 160>>]

\* __init__: the tables selected by view_type
angle_ranges(view) ==
  IF view = "front" THEN FRONT_VIEW_RANGES ELSE SIDE_VIEW_RANGES

rom_thresholds(view) ==
  IF view = "front" THEN FRONT_VIEW_ROM_THRESHOLDS ELSE SIDE_VIEW_ROM_THRESHOLDS

primary_joints(view) ==
  IF view = "front"
  THEN <<"left_shoulder", "right_shoulder", "left_elbow", "right_elbow">>
  ELSE <<"left_shoulder", "left_elbow">>

\* __init__: the tracking state of a fresh engine
NewRules ==
  [angle_history |-> <<>>,
   last_peak_frame |-> -1,
   last_valley_frame |-> -1,
   last_peak_angle |-> None,
   last_valley_angle |-> None,
   repetitions |-> <<>>]

\* str.lower on the letters of the strings at hand
LowerChar(c) ==
  CASE c = "F" -> "f" [] c = "R" -> "r" [] c = "O" -> "o" [] c = "N" -> "n"
    [] c = "T" -> "t" [] c = "S" -> "s" [] c = "I" -> "i" [] c = "D" -> "d"
    [] c = "E" -> "e" [] OTHER -> c

lower(s) == [k \in 1..Len(s) |-> LowerChar(s[k])]

\* __init__ that takes any unknown view type for front
ShoulderPressRulesDefaultFront(view_type) ==
  LET vt == lower(view_type)
  IN  IF vt = <<"s", "i", "d", "e">>
      THEN [raised |-> None, view_type |-> vt,
            angle_ranges |-> SIDE_VIEW_RANGES,
            rom_thresholds |-> SIDE_VIEW_ROM_THRESHOLDS,
            primary_joints |-> <<"left_shoulder", "left_elbow">>,
            state |-> NewRules]
      ELSE [raised |-> None, view_type |-> vt,
            angle_ranges |-> FRONT_VIEW_RANGES,
            rom_thresholds |-> FRONT_VIEW_ROM_THRESHOLDS,
            primary_joints |-> <<"left_shoulder", "right_shoulder",
                                 "left_elbow", "right_elbow">>,
            state |-> NewRules]

\* __init__ (lines 61-82): the object, or the exception raised
ShoulderPressRules(view_type) ==
  LET vt == lower(view_type)
  IN  IF vt = <<"f", "r", "o", "n", "t">>
      THEN [raised |-> None, view_type |-> vt,
            angle_ranges |-> FRONT_VIEW_RANGES,
            rom_thresholds |-> FRONT_VIEW_ROM_THRESHOLDS,
            primary_joints |-> <<"left_shoulder", "right_shoulder",
                                 "left_elbow", "right_elbow">>,
            state |-> NewRules]
      ELSE IF vt = <<"s", "i", "d", "e">>
      THEN [raised |-> None, view_type |-> vt,
            angle_ranges |-> SIDE_VIEW_RANGES,
            rom_thresholds |-> SIDE_VIEW_ROM_THRESHOLDS,
            primary_joints |-> <<"left_shoulder", "left_elbow">>,
            state |-> NewRules]
      ELSE [raised |-> Some("ValueError")]

(***************************************************************************)
(* Technique validation.  angles is a function from joint names to         *)
(* optional angles (a Python dict).                                        *)
(***************************************************************************)
\* check_angles that takes an angle on a limit of its range for an error
CheckAnglesOpenRange(view, angles) ==
  LET ranges == angle_ranges(view)
  IN  [j \in (DOMAIN angles) \cap (DOMAIN ranges) |->
         IF angles[j] = None THEN "missing"
         ELSE IF ranges[j][1] < Val(angles[j]) /\ Val(angles[j]) < ranges[j][2]
              THEN "ok"
              ELSE "error"]

check_angles(view, angles) ==
  LET ranges == angle_ranges(view)
  IN  [j \in (DOMAIN angles) \cap (DOMAIN ranges) |->
         IF angles[j] = None THEN "missing"
         ELSE IF ranges[j][1] <= Val(angles[j]) /\ Val(angles[j]) <= ranges[j][2]
              THEN "ok"
              ELSE "error"]

\* has_angle_errors that also counts a missing angle
HasAngleErrorsOrMissing(view, angles) ==
  LET angle_status == check_angles(view, angles)
  IN  \E j \in DOMAIN angle_status : angle_status[j] # "ok"

has_angle_errors(view, angles) ==
  LET angle_status == check_angles(view, angles)
  IN  \E j \in DOMAIN angle_status : angle_status[j] = "error"

RECURSIVE SumSeq(_)
SumSeq(s) == IF s = <<>> THEN 0 ELSE Head(s) + SumSeq(Tail(s))

RECURSIVE MinSeq(_)
MinSeq(s) ==
  IF Len(s) = 1 THEN s[1]
  ELSE LET m == MinSeq(Tail(s)) IN IF s[1] <= m THEN s[1] ELSE m

RECURSIVE MaxSeq(_)
MaxSeq(s) ==
  IF Len(s) = 1 THEN s[1]
  ELSE LET m == MaxSeq(Tail(s)) IN IF s[1] >= m THEN s[1] ELSE m

\* The angles of the primary joints that are present, in primary_joints order.
ValidAngles(view, angles) ==
  LET pj == primary_joints(view)
      present == SelectSeq(pj, LAMBDA j : j \in DOMAIN angles /\ angles[j] # None)
  IN  [k \in 1..Len(present) |-> Val(angles[present[k]])]

\* _get_average_angle that answers 0 when no primary joint has an angle
GetAverageAngleZeroOnGap(view, angles) ==
  LET valid_angles == ValidAngles(view, angles)
  IN  IF valid_angles = <<>> THEN Some(0)
      ELSE Some(SumSeq(valid_angles) \div Len(valid_angles))

\* The mean of the present primary angles; the frames the model feeds have
\* means that are whole degrees, so the division is exact.
get_average_angle(view, angles) ==
  LET valid_angles == ValidAngles(view, angles)
  IN  IF valid_angles = <<>> THEN None
      ELSE Some(SumSeq(valid_angles) \div Len(valid_angles))

\* _check_rom_thresholds that wants the thresholds of every joint covered
CheckRomThresholdsEveryJoint(view, min_angle, max_angle) ==
  LET rom == max_angle - min_angle
      th == rom_thresholds(view)
  IN  IF rom < MIN_ROM THEN FALSE
      ELSE \A j \in DOMAIN th :
             /\ min_angle <= th[j][1] + TOLERANCE
             /\ max_angle >= th[j][2] - TOLERANCE

check_rom_thresholds(view, min_angle, max_angle) ==
  LET rom == max_angle - min_angle
      th == rom_thresholds(view)
  IN  IF rom < MIN_ROM THEN FALSE
      ELSE \E j \in DOMAIN th :
             /\ min_angle <= th[j][1] + TOLERANCE
             /\ max_angle >= th[j][2] - TOLERANCE

\* _is_local_maximum that lets an equal neighbour pass
IsLocalMaximumNotStrict(h, idx) ==
  IF idx < PEAK_DETECTION_WINDOW \/ idx >= Len(h) - PEAK_DETECTION_WINDOW
  THEN FALSE
  ELSE \A i \in (idx - PEAK_DETECTION_WINDOW)..(idx + PEAK_DETECTION_WINDOW) :
         i # idx => h[i + 1].angle <= h[idx + 1].angle

\* idx is the 0-based Python index into the history.
is_local_maximum(h, idx) ==
  IF idx < PEAK_DETECTION_WINDOW \/ idx >= Len(h) - PEAK_DETECTION_WINDOW
  THEN FALSE
  ELSE \A i \in (idx - PEAK_DETECTION_WINDOW)..(idx + PEAK_DETECTION_WINDOW) :
         i # idx => h[i + 1].angle < h[idx + 1].angle

is_local_minimum(h, idx) ==
  IF idx < PEAK_DETECTION_WINDOW \/ idx >= Len(h) - PEAK_DETECTION_WINDOW
  THEN FALSE
  ELSE \A i \in (idx - PEAK_DETECTION_WINDOW)..(idx + PEAK_DETECTION_WINDOW) :
         i # idx => h[i + 1].angle > h[idx + 1].angle

(***************************************************************************)
(* update_repetition_tracking, in the order of its statements.  e is the   *)
(* tracking state of one engine; the result is the new state and the       *)
(* returned value (None or a Repetition).                                  *)
(***************************************************************************)

\* AppendSample that never drops an entry
AppendSampleUnbounded(h, frame_idx, avg_angle) ==
  Append(h, [frame |-> frame_idx, angle |-> avg_angle])

\* AppendSample that drops the entry before the new one when over capacity
AppendSampleEvictRecent(h, frame_idx, avg_angle) ==
  LET h1 == Append(h, [frame |-> frame_idx, angle |-> avg_angle])
  IN  IF Len(h1) > HISTORY_CAPACITY
      THEN SubSeq(h1, 1, Len(h1) - 2) \o <<h1[Len(h1)]>>
      ELSE h1

\* lines 186-189: append, then drop the oldest entry when over capacity
AppendSample(h, frame_idx, avg_angle) ==
  LET h1 == Append(h, [frame |-> frame_idx, angle |-> avg_angle])
  IN  IF Len(h1) > HISTORY_CAPACITY THEN Tail(h1) ELSE h1

\* FramesBetween without the samples of the valley frame and the peak frame
FramesBetweenExclusive(h, valley_frame, check_frame) ==
  LET sel == SelectSeq(h, LAMBDA s : valley_frame < s.frame /\ s.frame < check_frame)
  IN  [k \in 1..Len(sel) |-> sel[k].angle]

\* lines 202-205: the angles of the history entries from the valley to the peak
FramesBetween(h, valley_frame, check_frame) ==
  LET sel == SelectSeq(h, LAMBDA s : valley_frame <= s.frame /\ s.frame <= check_frame)
  IN  [k \in 1..Len(sel) |-> sel[k].angle]

\* MakeRepetition with the range taken as min_angle - max_angle
MakeRepetitionRomReversed(view, valley_frame, check_frame, frames_between) ==
  LET min_angle == MinSeq(frames_between)
      max_angle == MaxSeq(frames_between)
      is_complete == check_rom_thresholds(view, min_angle, max_angle)
  IN  [start_frame |-> valley_frame,
       end_frame |-> check_frame,
       min_angle |-> min_angle,
       max_angle |-> max_angle,
       rom |-> min_angle - max_angle,
       is_complete |-> is_complete,
       errors |-> IF is_complete THEN <<>>
                  ELSE <<"ROM za maly lub nie osiagnieto progow">>]

\* MakeRepetition that never lists an error
MakeRepetitionNoErrors(view, valley_frame, check_frame, frames_between) ==
  LET min_angle == MinSeq(frames_between)
      max_angle == MaxSeq(frames_between)
  IN  [start_frame |-> valley_frame,
       end_frame |-> check_frame,
       min_angle |-> min_angle,
       max_angle |-> max_angle,
       rom |-> max_angle - min_angle,
       is_complete |-> check_rom_thresholds(view, min_angle, max_angle),
       errors |-> <<>>]

\* lines 208-223: the Repetition built from the samples of the span
MakeRepetition(view, valley_frame, check_frame, frames_between) ==
  LET min_angle == MinSeq(frames_between)
      max_angle == MaxSeq(frames_between)
      is_complete == check_rom_thresholds(view, min_angle, max_angle)
  IN  [start_frame |-> valley_frame,
       end_frame |-> check_frame,
       min_angle |-> min_angle,
       max_angle |-> max_angle,
       rom |-> max_angle - min_angle,
       is_complete |-> is_complete,
       errors |-> IF is_complete THEN <<>>
                  ELSE <<"ROM za maly lub nie osiagnieto progow">>]

\* EmitRepetition that leaves the valley open
EmitRepetitionKeepValley(e, rep) ==
  [rules |-> [e EXCEPT !.repetitions = Append(@, rep)],
   ret |-> Some(rep)]

\* EmitRepetition that puts the repetition at the head of the log
EmitRepetitionNewestFirst(e, rep) ==
  [rules |-> [e EXCEPT !.repetitions = <<rep>> \o @,
                       !.last_valley_frame = -1,
                       !.last_valley_angle = None],
   ret |-> Some(rep)]

\* lines 225-231: log the repetition, close the valley, return the repetition
EmitRepetition(e, rep) ==
  [rules |-> [e EXCEPT !.repetitions = Append(@, rep),
                       !.last_valley_frame = -1,
                       !.last_valley_angle = None],
   ret |-> Some(rep)]

\* RecordPeak that writes the valley fields
RecordPeakAsValley(e, check_frame, check_angle) ==
  [rules |-> [e EXCEPT !.last_valley_frame = check_frame,
                       !.last_valley_angle = Some(check_angle)],
   ret |-> None]

\* RecordPeak that writes the peak fields and the valley fields
RecordPeakAndValley(e, check_frame, check_angle) ==
  [rules |-> [e EXCEPT !.last_peak_frame = check_frame,
                       !.last_peak_angle = Some(check_angle),
                       !.last_valley_frame = check_frame,
                       !.last_valley_angle = Some(check_angle)],
   ret |-> None]

\* lines 233-235: record the peak, return None
RecordPeak(e, check_frame, check_angle) ==
  [rules |-> [e EXCEPT !.last_peak_frame = check_frame,
                       !.last_peak_angle = Some(check_angle)],
   ret |-> None]

\* OnPeak that emits only while the valley sample is still in the history
OnPeakNeedsValleySample(view, e, check_frame, check_angle) ==
  LET frames_between ==
        FramesBetween(e.angle_history, e.last_valley_frame, check_frame)
  IN  IF e.last_valley_frame >= 0 /\ e.last_valley_angle # None
         /\ \E k \in DOMAIN e.angle_history :
              e.angle_history[k].frame = e.last_valley_frame
      THEN EmitRepetition(e, MakeRepetition(view, e.last_valley_frame,
                                            check_frame, frames_between))
      ELSE RecordPeak(e, check_frame, check_angle)

\* lines 198-235: the candidate is a local maximum
OnPeak(view, e, check_frame, check_angle) ==
  LET frames_between ==
        FramesBetween(e.angle_history, e.last_valley_frame, check_frame)
  IN  IF e.last_valley_frame >= 0 /\ e.last_valley_angle # None
         /\ frames_between # <<>>
      THEN EmitRepetition(e, MakeRepetition(view, e.last_valley_frame,
                                            check_frame, frames_between))
      ELSE RecordPeak(e, check_frame, check_angle)

\* OnValley that keeps a valley that is still open
OnValleyKeepOpen(e, check_frame, check_angle) ==
  IF e.last_valley_frame >= 0
  THEN [rules |-> e, ret |-> None]
  ELSE [rules |-> [e EXCEPT !.last_valley_frame = check_frame,
                            !.last_valley_angle = Some(check_angle)],
        ret |-> None]

\* lines 238-243: the candidate is a local minimum: it becomes the open valley
OnValley(e, check_frame, check_angle) ==
  [rules |-> [e EXCEPT !.last_valley_frame = check_frame,
                       !.last_valley_angle = Some(check_angle)],
   ret |-> None]

\* lines 191-192: the history must hold a whole window
EnoughSamples(h) == Len(h) >= 2 * PEAK_DETECTION_WINDOW + 1

\* DetectExtremum that examines the sample one place further back
DetectExtremumLate(view, e) ==
  LET h == e.angle_history
      check_idx == Len(h) - PEAK_DETECTION_WINDOW - 2
  IN  IF is_local_maximum(h, check_idx)
      THEN OnPeak(view, e, h[check_idx + 1].frame, h[check_idx + 1].angle)
      ELSE IF is_local_minimum(h, check_idx)
           THEN OnValley(e, h[check_idx + 1].frame, h[check_idx + 1].angle)
           ELSE [rules |-> e, ret |-> None]

\* lines 194-243: examine the sample PEAK_DETECTION_WINDOW behind the newest
DetectExtremum(view, e) ==
  LET h == e.angle_history
      check_idx == Len(h) - PEAK_DETECTION_WINDOW - 1
      check_frame == h[check_idx + 1].frame
      check_angle == h[check_idx + 1].angle
  IN  IF is_local_maximum(h, check_idx)
      THEN OnPeak(view, e, check_frame, check_angle)
      ELSE IF is_local_minimum(h, check_idx)
           THEN OnValley(e, check_frame, check_angle)
           ELSE [rules |-> e, ret |-> None]

\* update_repetition_tracking that does not wait for a whole window: with
\* fewer samples it compares the newest-but-one with the newest
TrackWithoutWarmUp(view, e, angles, frame_idx) ==
  LET avg_angle == get_average_angle(view, angles)
  IN  IF avg_angle = None
      THEN [rules |-> e, ret |-> None]
      ELSE LET e1 == [e EXCEPT !.angle_history =
                                 AppendSample(@, frame_idx, Val(avg_angle))]
               h == e1.angle_history
               n == Len(h)
           IN  IF EnoughSamples(h) THEN DetectExtremum(view, e1)
               ELSE IF n >= 2 /\ h[n - 1].angle > h[n].angle
                    THEN RecordPeak(e1, h[n - 1].frame, h[n - 1].angle)
                    ELSE [rules |-> e1, ret |-> None]

update_repetition_tracking(view, e, angles, frame_idx) ==
  LET avg_angle == get_average_angle(view, angles)
  IN  IF avg_angle = None
      THEN [rules |-> e, ret |-> None]
      ELSE LET e1 == [e EXCEPT !.angle_history =
                                 AppendSample(@, frame_idx, Val(avg_angle))]
           IN  IF ~EnoughSamples(e1.angle_history)
               THEN [rules |-> e1, ret |-> None]
               ELSE DetectExtremum(view, e1)

\* get_repetition_summary that averages the rom of the complete entries
SummaryOfCompleteRom(e) ==
  IF e.repetitions = <<>>
  THEN [total_reps |-> 0, complete_reps |-> 0, incomplete_reps |-> 0,
        avg_rom |-> <<0, 1>>]
  ELSE LET total == Len(e.repetitions)
           done == SelectSeq(e.repetitions, LAMBDA rep : rep.is_complete)
       IN  [total_reps |-> total,
            complete_reps |-> Len(done),
            incomplete_reps |-> total - Len(done),
            avg_rom |-> <<SumSeq([k \in 1..Len(done) |-> done[k].rom]), Len(done)>>]

\* lines 245-262.  avg_rom is the exact quotient <<sum of the rom, number of
\* entries>>; 0.0 on the empty log is <<0, 1>>
get_repetition_summary(e) ==
  IF e.repetitions = <<>>
  THEN [total_reps |-> 0, complete_reps |-> 0, incomplete_reps |-> 0,
        avg_rom |-> <<0, 1>>]
  ELSE LET total == Len(e.repetitions)
           complete == Cardinality({k \in 1..total : e.repetitions[k].is_complete})
       IN  [total_reps |-> total,
            complete_reps |-> complete,
            incomplete_reps |-> total - complete,
            avg_rom |-> <<SumSeq([k \in 1..total |-> e.repetitions[k].rom]), total>>]

(***************************************************************************)
(* camera.py, main: dual-view synchronisation (lines 219-243).  The slots  *)
(* of recent_rep_by_view are optional: None is an absent key.              *)
(***************************************************************************)
OtherView(view_name) == IF view_name = "front" THEN "side" ELSE "front"

Abs(x) == IF x < 0 THEN -x ELSE x

\* line 220: the entry stored for a completed repetition
Pending(rep, idx) == [rep |-> rep, frame_idx |-> idx, ok |-> rep.is_complete]

\* line 227: the two repetitions began close to each other
CloseInTime(other_rep, completed) ==
  Abs(other_rep.start_frame - completed.start_frame) < SYNC_FRAME_THRESHOLD

\* PopBoth that removes the other view's entry only
PopOther(slots, view_name) ==
  [slots EXCEPT ![OtherView(view_name)] = None]

\* PopBoth that removes no entry
PopNeither(slots, view_name) == slots

\* lines 238-239: both entries are removed
PopBoth(slots, view_name) ==
  [slots EXCEPT ![OtherView(view_name)] = None, ![view_name] = None]

\* lines 220-243, run when update_repetition_tracking returned a repetition
\* and enable_dual_view is set; the result is the new slots and counter
Synchronise(slots, confirmed, view_name, completed, idx) ==
  LET slots1 == [slots EXCEPT ![view_name] = Some(Pending(completed, idx))]
      other == slots1[OtherView(view_name)]
  IN  IF other # None
      THEN [slots |-> PopBoth(slots1, view_name),
            confirmed |->
              IF /\ CloseInTime(Val(other).rep, completed)
                 /\ completed.is_complete
                 /\ Val(other).ok
              THEN confirmed + 1
              ELSE confirmed]
      ELSE [slots |-> slots1,
            confirmed |-> IF completed.is_complete
                          THEN confirmed + 1
                          ELSE confirmed]

(***************************************************************************)
(* The angle maps fed to the engines.  get_all_angles returns the eight    *)
(* joints, None for a joint that is not visible; the map is empty when     *)
(* there are no landmarks or detection is paused.                          *)
(***************************************************************************)
AllJoints ==
  {"left_elbow", "right_elbow", "left_knee", "right_knee",
   "left_shoulder", "right_shoulder", "left_hip", "right_hip"}

MkAngles(vals) ==
  [j \in AllJoints |-> IF j \in DOMAIN vals THEN Some(vals[j]) ELSE None]

EmptyAngles == [j \in {} |-> None]

FrontAngles(v) ==
  MkAngles([left_shoulder |-> v, right_shoulder |-> v,
            left_elbow |-> v, right_elbow |-> v])

SideAngles(v, hip) ==
  MkAngles([left_shoulder |-> v, left_elbow |-> v, left_hip |-> hip])

\* a front frame of mean 40 whose left shoulder (20) is below its range
FrontLowError ==
  MkAngles([left_shoulder |-> 20, right_shoulder |-> 60,
            left_elbow |-> 40, right_elbow |-> 40])

\* the signal levels of the model: bottom, middle and top of the movement
Levels(view) == IF view = "front" THEN {40, 90, 150} ELSE {20, 90, 150}

CleanFrames(view) ==
  IF view = "front"
  THEN {FrontAngles(v) : v \in Levels("front")}
  ELSE {SideAngles(v, 110) : v \in Levels("side")}

\* frames with a joint out of range: the hip (90) in the side view
ErrorFrames(view) ==
  IF view = "front" THEN {FrontLowError} ELSE {SideAngles(150, 90)}

\* frames with no primary joint
GapFrames == {MkAngles(EmptyAngles), EmptyAngles}

SingleViewFrames(view) == CleanFrames(view) \cup ErrorFrames(view) \cup GapFrames

\* dual-view runs feed clean frames; the side view moves between bottom and top
DualViewFrames(view) ==
  IF view = "front" THEN CleanFrames("front")
  ELSE {SideAngles(v, 110) : v \in {20, 150}}

(***************************************************************************)
(* State of main.                                                          *)
(***************************************************************************)
VARIABLES
  enable_dual_view,    \* line 38
  view_names,          \* lines 57, 98: the views, in processing order
  rules,               \* rules_list: view name -> tracking state
  frame_idx,           \* line 104
  confirmed_reps,      \* line 121
  recent_rep_by_view,  \* line 124
  i,                   \* position of the for loop of line 163 (1-based)
  running,             \* the while loop of line 131 has not been left
  last,                \* locals of the latest loop body: view_name, frame_idx,
                       \* angles (182-191), has_errors (205), completed_rep
                       \* (208), other (223);
                       \* cycle_errors and valley_before: the values of
                       \* cycle_errors and of last_valley_frame for the
                       \* view when the body began
  cycle_errors,        \* history: view name -> the frames ingested since the
                       \* open valley was recorded for which has_errors was set
  credited,            \* history: the repetitions <<view, start_frame>> that
                       \* took part in one increment of confirmed_reps (once)
                       \* and in a further one (twice)
  call,                \* the latest call of a query method of the rules: its
                       \* name fn, its arguments, its result (None until it
                       \* returned) and, for the summary, the number n of calls
  client,              \* an IPWebcamClient (phone_camera.py) and its threads
  stt                  \* the module state of speech_to_text.py, the objects
                       \* it made and its worker threads

vars == <<enable_dual_view, view_names, rules, frame_idx, confirmed_reps,
          recent_rep_by_view, i, running, last, cycle_errors, credited, call,
          client, stt>>

\* phone_camera.py lines 49-53: a client that was never started.  threads
\* holds, for every thread start_stream made, its place in _stream_loop (pc),
\* the local consecutive_errors, got_data (the open connection has delivered
\* a chunk) and the history failures: the connection attempts in a row that
\* failed
NewClient == [is_running |-> FALSE, threads |-> <<>>]

\* speech_to_text.py lines 25-30: the module as imported.  backend, capture
\* and worker_thread are positions in backends, captures and workers (0 is
\* None); tick and raised tell the latest call of the API and its exception
NotListening ==
  [running |-> FALSE, callback |-> None, backend |-> 0, capture |-> 0,
   worker_thread |-> 0, workers |-> <<>>, backends |-> <<>>, captures |-> <<>>,
   tick |-> 0, api |-> "", raised |-> None]

NoCall == [fn |-> "", n |-> 0, result |-> None]

NoLocals == [view_name |-> "", frame_idx |-> -1, angles |-> <<>>,
             has_errors |-> FALSE, completed_rep |-> None, other |-> None,
             cycle_errors |-> {}, valley_before |-> -1]

InitCommon ==
  /\ rules = [v \in {view_names[k] : k \in 1..Len(view_names)} |-> NewRules]
  /\ frame_idx = 0
  /\ confirmed_reps = 0
  /\ recent_rep_by_view = [v \in Views |-> None]
  /\ i = 1
  /\ running = TRUE
  /\ last = NoLocals
  /\ cycle_errors = [v \in Views |-> {}]
  /\ credited = [once |-> {}, twice |-> {}]
  /\ call = NoCall
  /\ client = NewClient
  /\ stt = NotListening

\* lines 51-57: both views
InitDual ==
  /\ enable_dual_view = TRUE
  /\ view_names = <<"front", "side">>
  /\ InitCommon

\* lines 79-98: one view, view_type front or side
InitSingle ==
  /\ enable_dual_view = FALSE
  /\ \E view_type \in Views : view_names = <<view_type>>
  /\ InitCommon

ValleyOpen(e) == e.last_valley_frame >= 0 /\ e.last_valley_angle # None

\* the history variables after one loop body
Bookkeeping(view_name, angles, has_errors, r, other, confirmed) ==
  LET same_valley == /\ ValleyOpen(rules[view_name])
                     /\ ValleyOpen(r.rules)
                     /\ r.rules.last_valley_frame = rules[view_name].last_valley_frame
      ingested == r.rules.angle_history # rules[view_name].angle_history
      contributors ==
        IF r.ret = None THEN {}
        ELSE {<<view_name, Val(r.ret).start_frame>>} \cup
             (IF other = None THEN {}
              ELSE {<<OtherView(view_name), Val(other).rep.start_frame>>})
  IN  /\ last' = [view_name |-> view_name, frame_idx |-> frame_idx,
                  angles |-> angles, has_errors |-> has_errors, completed_rep |-> r.ret,
                  other |-> other, cycle_errors |-> cycle_errors[view_name],
                  valley_before |-> rules[view_name].last_valley_frame]
      /\ cycle_errors' =
           [cycle_errors EXCEPT ![view_name] =
              IF ~same_valley THEN {}
              ELSE IF has_errors /\ ingested THEN @ \cup {frame_idx}
              ELSE @]
      /\ credited' =
           IF confirmed > confirmed_reps
           THEN [once |-> credited.once \cup contributors,
                 twice |-> credited.twice \cup (contributors \cap credited.once)]
           ELSE credited

\* ProcessView with one repetition log shared by the engines
ProcessViewSharedLog(view_name, angles) ==
  LET has_errors == has_angle_errors(view_name, angles)
      r == update_repetition_tracking(view_name, rules[view_name], angles, frame_idx)
      synchronised == r.ret # None /\ enable_dual_view
      other == IF synchronised THEN recent_rep_by_view[OtherView(view_name)]
               ELSE None
      sync == IF synchronised
              THEN Synchronise(recent_rep_by_view, confirmed_reps, view_name,
                               Val(r.ret), frame_idx)
              ELSE [slots |-> recent_rep_by_view, confirmed |-> confirmed_reps]
  IN  /\ rules' = [v \in DOMAIN rules |->
                     IF v = view_name THEN r.rules
                     ELSE [rules[v] EXCEPT !.repetitions = r.rules.repetitions]]
      /\ recent_rep_by_view' = sync.slots
      /\ confirmed_reps' = sync.confirmed
      /\ Bookkeeping(view_name, angles, has_errors, r, other, sync.confirmed)

\* lines 204-243: the body of the for loop for one view and its frame
ProcessView(view_name, angles) ==
  LET has_errors == has_angle_errors(view_name, angles)
      r == update_repetition_tracking(view_name, rules[view_name], angles, frame_idx)
      synchronised == r.ret # None /\ enable_dual_view
      other == IF synchronised THEN recent_rep_by_view[OtherView(view_name)]
               ELSE None
      sync == IF synchronised
              THEN Synchronise(recent_rep_by_view, confirmed_reps, view_name,
                               Val(r.ret), frame_idx)
              ELSE [slots |-> recent_rep_by_view, confirmed |-> confirmed_reps]
  IN  /\ rules' = [rules EXCEPT ![view_name] = r.rules]
      /\ recent_rep_by_view' = sync.slots
      /\ confirmed_reps' = sync.confirmed
      /\ Bookkeeping(view_name, angles, has_errors, r, other, sync.confirmed)

\* AdvanceLoop that counts a frame for every view
AdvanceLoopPerView ==
  /\ i' = IF i = Len(view_names) THEN 1 ELSE i + 1
  /\ frame_idx' = frame_idx + 1

\* lines 163, 285: the next view of this iteration, or the next iteration
AdvanceLoop ==
  IF i = Len(view_names)
  THEN i' = 1 /\ frame_idx' = frame_idx + 1
  ELSE i' = i + 1 /\ frame_idx' = frame_idx

\* one pass of the loop body in single-view mode
StepSingle ==
  /\ running /\ ~enable_dual_view /\ frame_idx < MaxFrame
  /\ \E angles \in SingleViewFrames(view_names[i]) :
       ProcessView(view_names[i], angles)
  /\ AdvanceLoop
  /\ UNCHANGED <<enable_dual_view, view_names, running, call, client, stt>>

\* one pass of the loop body in dual-view mode
StepDual ==
  /\ running /\ enable_dual_view /\ frame_idx < MaxDualFrame
  /\ \E angles \in DualViewFrames(view_names[i]) :
       ProcessView(view_names[i], angles)
  /\ AdvanceLoop
  /\ UNCHANGED <<enable_dual_view, view_names, running, call, client, stt>>

\* lines 158-160, 288-290: the loop is left between two iterations
EndLoop ==
  /\ running /\ i = 1
  /\ running' = FALSE
  /\ UNCHANGED <<enable_dual_view, view_names, rules, frame_idx, confirmed_reps,
                 recent_rep_by_view, i, last, cycle_errors, credited, call,
                 client, stt>>

\* Summarise that empties the log it has summed up
SummariseAndClear ==
  /\ ~running /\ call.n < MaxSummaryCalls
  /\ \E k \in 1..Len(view_names) :
       /\ call' = [fn |-> "get_repetition_summary", view |-> view_names[k],
                   n |-> call.n + 1,
                   result |-> Some(get_repetition_summary(rules[view_names[k]]))]
       /\ rules' = [rules EXCEPT ![view_names[k]].repetitions = <<>>]
  /\ UNCHANGED <<enable_dual_view, view_names, frame_idx, confirmed_reps,
                 recent_rep_by_view, i, running, last, cycle_errors, credited,
                 client, stt>>

\* lines 316-317: summary = rule_set.get_repetition_summary(), for one view
\* after the loop, or once more by a later caller
Summarise ==
  /\ ~running /\ call.n < MaxSummaryCalls
  /\ \E k \in 1..Len(view_names) :
       call' = [fn |-> "get_repetition_summary", view |-> view_names[k],
                n |-> call.n + 1,
                result |-> Some(get_repetition_summary(rules[view_names[k]]))]
  /\ UNCHANGED <<enable_dual_view, view_names, rules, frame_idx, confirmed_reps,
                 recent_rep_by_view, i, running, last, cycle_errors, credited,
                 client, stt>>

NextSingle == StepSingle \/ EndLoop \/ Summarise
NextDual == StepDual \/ EndLoop

Spec == InitSingle /\ [][NextSingle]_vars
SpecDual == InitDual /\ [][NextDual]_vars

(***************************************************************************)
(* The query methods of the rules, called on their own as the tests call   *)
(* them: the arguments are drawn when the call is made, one step returns.  *)
(***************************************************************************)
\* the angles min_angle and max_angle are drawn from: every fifth degree
AngleGrid == {5 * k : k \in 0..GridSteps}

\* the angles a joint is probed with: around the limits of its ranges
ProbeAngles(j) ==
  CASE j = "left_shoulder" -> {34, 35, 160, 161, 181}
    [] j = "left_elbow" -> {7, 8, 34, 35, 180, 181}
    [] j = "left_hip" -> {99, 100, 133, 134}
    [] OTHER -> {90}

\* a key that the dict does not have
Absent == <<0, 0>>

ProbeEntries(j) == {Absent, None} \cup {Some(v) : v \in ProbeAngles(j)}

\* the dicts over left_shoulder, left_elbow, left_hip and left_knee
ProbeDicts ==
  {[j \in {k \in {"left_shoulder", "left_elbow", "left_hip", "left_knee"} :
             c[k] # Absent} |-> c[j]] :
     c \in {d \in [{"left_shoulder", "left_elbow", "left_hip", "left_knee"} ->
                     UNION {ProbeEntries(k) : k \in {"left_shoulder", "left_elbow",
                                                     "left_hip", "left_knee"}}] :
              \A k \in DOMAIN d : d[k] \in ProbeEntries(k)}}

RomCalls ==
  {[fn |-> "_check_rom_thresholds", view |-> v, min_angle |-> a, max_angle |-> b,
    n |-> 0, result |-> None] : v \in Views, a \in AngleGrid, b \in AngleGrid}

AngleCalls ==
  {[fn |-> f, view |-> v, angles |-> d, n |-> 0, result |-> None] :
     f \in {"check_angles", "has_angle_errors"}, v \in Views, d \in ProbeDicts}

\* the strings the constructor is given, as sequences of characters
ViewTypeArgs ==
  {<<"f", "r", "o", "n", "t">>, <<"F", "R", "O", "N", "T">>,
   <<"F", "r", "o", "n", "t">>, <<"s", "i", "d", "e">>, <<"S", "I", "D", "E">>,
   <<"s", "i", "d", "E">>, <<"t", "o", "p">>, <<"f", "r", "o", "n", "t", "s">>,
   <<"s", "i", "d">>, <<>>}

InitCalls ==
  {[fn |-> "__init__", view_type |-> s, n |-> 0, result |-> None] :
     s \in ViewTypeArgs}

\* a fresh ShoulderPressRules(view_type) and the arguments of one call on it,
\* or the arguments of the constructor
InitPure ==
  /\ call \in RomCalls \cup AngleCalls \cup InitCalls
  /\ enable_dual_view = FALSE
  /\ view_names = IF call.fn = "__init__" THEN <<>> ELSE <<call.view>>
  /\ rules = [v \in {view_names[k] : k \in 1..Len(view_names)} |-> NewRules]
  /\ frame_idx = 0
  /\ confirmed_reps = 0
  /\ recent_rep_by_view = [v \in Views |-> None]
  /\ i = 1
  /\ running = FALSE
  /\ last = NoLocals
  /\ cycle_errors = [v \in Views |-> {}]
  /\ credited = [once |-> {}, twice |-> {}]
  /\ client = NewClient
  /\ stt = NotListening

Returns(value) ==
  /\ call.result = None
  /\ call' = [call EXCEPT !.result = Some(value)]
  /\ UNCHANGED <<enable_dual_view, view_names, rules, frame_idx, confirmed_reps,
                 recent_rep_by_view, i, running, last, cycle_errors, credited,
                 client, stt>>

CallCheckRomThresholds ==
  /\ call.fn = "_check_rom_thresholds"
  /\ Returns(check_rom_thresholds(call.view, call.min_angle, call.max_angle))

CallCheckAngles ==
  /\ call.fn = "check_angles"
  /\ Returns(check_angles(call.view, call.angles))

CallHasAngleErrors ==
  /\ call.fn = "has_angle_errors"
  /\ Returns(has_angle_errors(call.view, call.angles))

CallInit ==
  /\ call.fn = "__init__"
  /\ Returns(ShoulderPressRules(call.view_type))

NextPure ==
  CallCheckRomThresholds \/ CallCheckAngles \/ CallHasAngleErrors \/ CallInit

SpecPure == InitPure /\ [][NextPure]_vars

(***************************************************************************)
(* phone_camera.py, IPWebcamClient: start_stream, stop_stream and the      *)
(* threads that run _stream_loop.  A thread is at "loop" before the test   *)
(* of the while of line 112, at "streaming" inside iter_content (130), at  *)
(* "after_stream" before line 226 and at "done" once it has returned.  The *)
(* sleeps of the backoff change no state and are left out.                 *)
(***************************************************************************)
\* the main program idle: nothing of it takes part
CoachIdle ==
  /\ enable_dual_view = FALSE
  /\ view_names = <<>>
  /\ rules = [v \in {} |-> NewRules]
  /\ frame_idx = 0
  /\ confirmed_reps = 0
  /\ recent_rep_by_view = [v \in Views |-> None]
  /\ i = 1
  /\ running = FALSE
  /\ last = NoLocals
  /\ cycle_errors = [v \in Views |-> {}]
  /\ credited = [once |-> {}, twice |-> {}]
  /\ call = NoCall

coachVars ==
  <<enable_dual_view, view_names, rules, frame_idx, confirmed_reps,
    recent_rep_by_view, i, running, last, cycle_errors, credited, call>>

InitStream ==
  /\ CoachIdle
  /\ client = NewClient
  /\ stt = NotListening

\* line 110: a thread enters _stream_loop
NewThread == [pc |-> "loop", consecutive_errors |-> 0, got_data |-> FALSE,
              failures |-> 0]

\* lines 260-270
start_stream ==
  /\ Len(client.threads) < MaxThreads
  /\ client' = IF client.is_running THEN client
               ELSE [is_running |-> TRUE,
                     threads |-> Append(client.threads, NewThread)]
  /\ UNCHANGED <<coachVars, stt>>

\* lines 272-277: the join gives up after two seconds, so the thread may
\* still be anywhere in its loop when stop_stream returns
stop_stream ==
  /\ client.threads # <<>>
  /\ client' = [client EXCEPT !.is_running = FALSE]
  /\ UNCHANGED <<coachVars, stt>>

\* lines 256-258: the loop was left
Leave(th) == [th EXCEPT !.pc = "done"]

\* lines 238-255: the handlers of RequestException and of Exception
OnException(t) ==
  LET th == client.threads[t]
      errors == th.consecutive_errors + 1
  IN  IF errors >= max_consecutive_errors
      THEN client' = [is_running |-> FALSE,
                      threads |-> [client.threads EXCEPT ![t] =
                                     Leave([th EXCEPT !.consecutive_errors = errors,
                                                      !.failures = @ + 1])]]
      ELSE client' = [client EXCEPT !.threads[t] =
                        [th EXCEPT !.pc = "loop", !.consecutive_errors = errors,
                                   !.failures = @ + 1]]

\* line 112 with is_running false: the loop ends (256-257)
LoopExit(t) ==
  /\ client.threads[t].pc = "loop"
  /\ ~client.is_running
  /\ client' = [is_running |-> FALSE,
                threads |-> [client.threads EXCEPT ![t] = Leave(@)]]

\* lines 112-115, 238-255: requests.get raises
ConnectRaises(t) ==
  /\ client.threads[t].pc = "loop"
  /\ client.is_running
  /\ client.threads[t].failures < StreamErrorCap
  /\ OnException(t)

\* lines 112-122: the server answers with a status other than 200
ConnectNot200(t) ==
  /\ client.threads[t].pc = "loop"
  /\ client.is_running
  /\ client.threads[t].failures < StreamErrorCap
  /\ client' = [client EXCEPT !.threads[t] =
                  [@ EXCEPT !.consecutive_errors = @ + 1, !.failures = @ + 1]]

\* lines 112-129: the server answers 200
ConnectOk(t) ==
  /\ client.threads[t].pc = "loop"
  /\ client.is_running
  /\ client' = [client EXCEPT !.threads[t] =
                  [@ EXCEPT !.pc = "streaming", !.consecutive_errors = 0,
                            !.got_data = FALSE]]

\* lines 130-224: one chunk of the response; with is_running false the
\* chunk loop is left (131-132)
Chunk(t) ==
  /\ client.threads[t].pc = "streaming"
  /\ client' = IF client.is_running
               THEN [client EXCEPT !.threads[t] =
                       [@ EXCEPT !.got_data = TRUE, !.failures = 0]]
               ELSE [client EXCEPT !.threads[t] = [@ EXCEPT !.pc = "after_stream"]]

\* line 130: the server closes the connection and iter_content ends
ServerCloses(t) ==
  /\ client.threads[t].pc = "streaming"
  /\ client' = [client EXCEPT !.threads[t] = [@ EXCEPT !.pc = "after_stream"]]

\* line 130, 238-255: iter_content raises
StreamRaises(t) ==
  /\ client.threads[t].pc = "streaming"
  /\ client.threads[t].failures < StreamErrorCap
  /\ OnException(t)

\* lines 226-234: leave when stopped, else count the closed connection and
\* go round again
AfterStream(t) ==
  LET th == client.threads[t]
  IN  /\ th.pc = "after_stream"
      /\ client.is_running => th.failures < StreamErrorCap
      /\ client' = IF ~client.is_running
                   THEN [is_running |-> FALSE,
                         threads |-> [client.threads EXCEPT ![t] = Leave(th)]]
                   ELSE [client EXCEPT !.threads[t] =
                           [th EXCEPT !.pc = "loop",
                                      !.consecutive_errors = @ + 1,
                                      !.failures = IF th.got_data THEN 0
                                                   ELSE @ + 1]]

ThreadStep ==
  /\ \E t \in DOMAIN client.threads :
       \/ LoopExit(t) \/ ConnectRaises(t) \/ ConnectNot200(t) \/ ConnectOk(t)
       \/ Chunk(t) \/ ServerCloses(t) \/ StreamRaises(t) \/ AfterStream(t)
  /\ UNCHANGED <<coachVars, stt>>

NextStream == start_stream \/ stop_stream \/ ThreadStep

SpecStream == InitStream /\ [][NextStream]_vars

(***************************************************************************)
(* speech_to_text.py: start_listening, stop_listening and the worker       *)
(* threads.  A worker is at "check" before it reads _running (lines        *)
(* 274-278), at "read" before _capture.read (279), at "flush" before       *)
(* _backend.finish (292), at "cleanup" before _capture.stop (301) and at   *)
(* "done" after it.  It reads the globals _capture, _backend and _callback *)
(* when it uses them.  For a backend, flushes counts the calls of finish,  *)
(* finals the flushed results handed to the callback, and late_partial     *)
(* tells that a partial result was handed over after one of those.         *)
(***************************************************************************)
Callbacks == {"on_text", "on_command"}

InitListen ==
  /\ CoachIdle
  /\ client = NewClient
  /\ stt = NotListening

\* the call and what it raised
Called(m, fn, raised) ==
  [m EXCEPT !.tick = 1 - @, !.api = fn, !.raised = raised]

NewBackend == [flushes |-> 0, finals |-> 0, late_partial |-> FALSE]

\* line 270 on: the worker of a session, with the backend and the capture
\* that session made
NewWorker(backend, capture) ==
  [pc |-> "check", backend |-> backend, capture |-> capture,
   stop_requested |-> FALSE]

\* start_listening that stores the callback before it looks at _running
StartListeningCallbackFirst(callback, outcome) ==
  /\ stt.running \/ Len(stt.backends) < MaxBackends
  /\ stt' =
       IF stt.running
       THEN Called([stt EXCEPT !.callback = Some(callback)],
                   "start_listening", Some("Already listening"))
       ELSE IF outcome = "backend_error"
       THEN Called([stt EXCEPT !.callback = Some(callback)],
                   "start_listening", Some("RuntimeError"))
       ELSE LET b == Len(stt.backends) + 1
                c == Len(stt.captures) + 1
                w == Len(stt.workers) + 1
            IN  IF outcome = "capture_error"
                THEN Called([stt EXCEPT !.callback = Some(callback),
                                        !.backend = b,
                                        !.backends = Append(@, NewBackend),
                                        !.capture = c,
                                        !.captures = Append(@, [open |-> FALSE])],
                            "start_listening", Some("PortAudioError"))
                ELSE Called([stt EXCEPT !.callback = Some(callback),
                                        !.backend = b,
                                        !.backends = Append(@, NewBackend),
                                        !.capture = c,
                                        !.captures = Append(@, [open |-> TRUE]),
                                        !.running = TRUE,
                                        !.worker_thread = w,
                                        !.workers = Append(@, NewWorker(b, c))],
                            "start_listening", None)
  /\ UNCHANGED <<coachVars, client>>

\* lines 236-306, all of it under _lock.  outcome tells what the environment
\* does to the call: the backend cannot be made (261-264), the capture
\* cannot be started (267) or all is well
start_listening(callback, outcome) ==
  /\ stt.running \/ Len(stt.backends) < MaxBackends
  /\ stt' =
       IF stt.running
       THEN Called(stt, "start_listening", Some("Already listening"))
       ELSE IF outcome = "backend_error"
       THEN Called([stt EXCEPT !.callback = Some(callback)],
                   "start_listening", Some("RuntimeError"))
       ELSE LET b == Len(stt.backends) + 1
                c == Len(stt.captures) + 1
                w == Len(stt.workers) + 1
            IN  IF outcome = "capture_error"
                THEN Called([stt EXCEPT !.callback = Some(callback),
                                        !.backend = b,
                                        !.backends = Append(@, NewBackend),
                                        !.capture = c,
                                        !.captures = Append(@, [open |-> FALSE])],
                            "start_listening", Some("PortAudioError"))
                ELSE Called([stt EXCEPT !.callback = Some(callback),
                                        !.backend = b,
                                        !.backends = Append(@, NewBackend),
                                        !.capture = c,
                                        !.captures = Append(@, [open |-> TRUE]),
                                        !.running = TRUE,
                                        !.worker_thread = w,
                                        !.workers = Append(@, NewWorker(b, c))],
                            "start_listening", None)
  /\ UNCHANGED <<coachVars, client>>

\* lines 309-318: the join gives up after five seconds, so the worker may
\* still be anywhere in its loop when stop_listening returns
stop_listening ==
  /\ stt' =
       IF ~stt.running
       THEN Called(stt, "stop_listening", None)
       ELSE Called([stt EXCEPT
                      !.running = FALSE,
                      !.workers = [w \in DOMAIN @ |->
                                     IF @[w].pc = "done" THEN @[w]
                                     ELSE [@[w] EXCEPT !.stop_requested = TRUE]]],
                   "stop_listening", None)
  /\ UNCHANGED <<coachVars, client>>

\* lines 274-278
WorkerCheck(w) ==
  /\ stt.workers[w].pc = "check"
  /\ stt' = [stt EXCEPT !.workers[w].pc = IF stt.running THEN "read" ELSE "flush"]

\* lines 279-290: read a chunk, feed it, hand a text to the callback.  result
\* is what read and feed give: no chunk, no text, a partial text or the text
\* of a whole utterance
WorkerRead(w, result) ==
  /\ stt.workers[w].pc = "read"
  /\ stt' = [stt EXCEPT
               !.workers[w].pc = "check",
               !.backends[stt.backend].late_partial =
                 \/ @
                 \/ /\ result = "partial"
                    /\ stt.callback # None
                    /\ stt.backends[stt.backend].finals > 0]

\* lines 291-297: finish, and the callback when the final text is not empty
WorkerFlush(w, final) ==
  /\ stt.workers[w].pc = "flush"
  /\ stt' = [stt EXCEPT
               !.workers[w].pc = "cleanup",
               !.backends[stt.backend].flushes = @ + 1,
               !.backends[stt.backend].finals =
                 IF final # "" /\ stt.callback # None THEN @ + 1 ELSE @]

\* lines 298-303: _capture.stop()
WorkerCleanup(w) ==
  /\ stt.workers[w].pc = "cleanup"
  /\ stt' = [stt EXCEPT !.workers[w].pc = "done",
                        !.captures[stt.capture].open = FALSE]

WorkerStep(w) ==
  /\ w \in DOMAIN stt.workers
  /\ \/ WorkerCheck(w)
     \/ \E result \in {"none", "no_text", "partial", "utterance"} :
          WorkerRead(w, result)
     \/ \E final \in {"", "text"} : WorkerFlush(w, final)
     \/ WorkerCleanup(w)
  /\ UNCHANGED <<coachVars, client>>

StartListening ==
  \E callback \in Callbacks, outcome \in {"ok", "backend_error", "capture_error"} :
    start_listening(callback, outcome)

WorkerSteps == \E w \in 1..MaxBackends : WorkerStep(w)

NextListen == StartListening \/ stop_listening \/ WorkerSteps

\* a worker thread that can take a step is given the processor in the end;
\* _capture.read returns after its timeout, so no step waits for ever
SpecListen ==
  /\ InitListen
  /\ [][NextListen]_vars
  /\ \A w \in 1..MaxBackends : WF_vars(WorkerStep(w))

(***************************************************************************)
(* Properties.  A loop body ran in a step iff the loop position moved; the *)
(* view it ran for is last'.view_name.                                     *)
(***************************************************************************)
Stepped == i' # i \/ frame_idx' # frame_idx

\* the 1-based position of the sample examined in a history h
Candidate(h) == Len(h) - PEAK_DETECTION_WINDOW

\* the examined sample is strictly above its neighbours on both sides
StrictPeak(h) ==
  /\ Len(h) >= 2 * PEAK_DETECTION_WINDOW + 1
  /\ \A k \in 1..PEAK_DETECTION_WINDOW :
       /\ h[Candidate(h) - k].angle < h[Candidate(h)].angle
       /\ h[Candidate(h) + k].angle < h[Candidate(h)].angle

TechniqueMessage == "incorrect technique during movement"

\* C6: a repetition is incomplete and lists the technique failure when a
\* frame with a technique error was ingested while its valley was open, at
\* or before its peak, even though its range passes the ROM rules.
C6_TechniqueErrorFailsRepetition ==
  (last.completed_rep # None
     /\ \E f \in last.cycle_errors : f <= Val(last.completed_rep).end_frame
     /\ check_rom_thresholds(last.view_name, Val(last.completed_rep).min_angle,
                             Val(last.completed_rep).max_angle))
  => /\ ~Val(last.completed_rep).is_complete
     /\ \E k \in DOMAIN Val(last.completed_rep).errors :
          Val(last.completed_rep).errors[k] = TechniqueMessage

\* C7: a repetition is returned only by an ingest that finds a local maximum
\* while a valley is open; a local maximum with no open valley returns
\* nothing, is recorded as the last peak and leaves the log unchanged.
C7_PeakWithoutValley ==
  [][Stepped =>
       LET e == rules[last'.view_name]
           e2 == rules'[last'.view_name]
           h2 == e2.angle_history
           ingested == h2 # e.angle_history
       IN  /\ last'.completed_rep # None =>
                ingested /\ StrictPeak(h2) /\ ValleyOpen(e)
           /\ (ingested /\ StrictPeak(h2) /\ ~ValleyOpen(e)) =>
                /\ last'.completed_rep = None
                /\ e2.last_peak_frame = h2[Candidate(h2)].frame
                /\ e2.last_peak_angle = Some(h2[Candidate(h2)].angle)
                /\ e2.repetitions = e.repetitions]_vars

\* C7 witness: the latest ingest found a local maximum with no open valley
C7_Witness ==
  /\ last.view_name # ""
  /\ LET e == rules[last.view_name]
     IN  /\ StrictPeak(e.angle_history)
         /\ e.angle_history[Len(e.angle_history)].frame = last.frame_idx
         /\ last.completed_rep = None
         /\ ~ValleyOpen(e)
         /\ e.last_peak_frame = e.angle_history[Candidate(e.angle_history)].frame

\* C8: an ingest that finds a local maximum while a valley is open returns
\* one repetition from the valley's frame to the peak's frame, appends just
\* that record to the log and leaves no valley open.
C8_PeakClosesValley ==
  [][Stepped =>
       LET e == rules[last'.view_name]
           e2 == rules'[last'.view_name]
           h2 == e2.angle_history
           ingested == h2 # e.angle_history
       IN  (ingested /\ StrictPeak(h2) /\ ValleyOpen(e)) =>
             /\ last'.completed_rep # None
             /\ Val(last'.completed_rep).start_frame = e.last_valley_frame
             /\ Val(last'.completed_rep).end_frame = h2[Candidate(h2)].frame
             /\ e2.repetitions = Append(e.repetitions, Val(last'.completed_rep))
             /\ e2.last_valley_frame = -1
             /\ e2.last_valley_angle = None]_vars

\* C8 witness: a repetition was returned whose valley sample had already
\* left the history
C8_Witness ==
  /\ last.completed_rep # None
  /\ LET h == rules[last.view_name].angle_history
     IN  /\ Len(h) = HISTORY_CAPACITY
         /\ \A k \in DOMAIN h : h[k].frame # Val(last.completed_rep).start_frame

\* C9: every logged repetition starts before it ends, and ends before the
\* next one starts.
C9_NoReuse ==
  \A v \in DOMAIN rules :
    LET log == rules[v].repetitions
    IN  \A k \in DOMAIN log :
          /\ log[k].start_frame < log[k].end_frame
          /\ k < Len(log) => log[k].end_frame < log[k + 1].start_frame

\* C9 witness: a log with two repetitions
C9_Witness == \E v \in DOMAIN rules : Len(rules[v].repetitions) >= 2

\* C10: while the history holds fewer than 2*WINDOW+1 samples nothing is
\* returned and the peak, the valley and the log are as constructed.
C10_NoEventBeforeWindow ==
  \A v \in DOMAIN rules :
    Len(rules[v].angle_history) < 2 * PEAK_DETECTION_WINDOW + 1 =>
      /\ rules[v].last_peak_frame = -1
      /\ rules[v].last_peak_angle = None
      /\ rules[v].last_valley_frame = -1
      /\ rules[v].last_valley_angle = None
      /\ rules[v].repetitions = <<>>
      /\ last.view_name = v => last.completed_rep = None

\* C10 witness: 2*WINDOW samples ingested, the last one below the one before
C10_Witness ==
  \E v \in DOMAIN rules :
    LET h == rules[v].angle_history
    IN  /\ Len(h) = 2 * PEAK_DETECTION_WINDOW
        /\ last.view_name = v
        /\ h[Len(h)].angle < h[Len(h) - 1].angle

(***************************************************************************)
(* Dual-view synchronisation.  In the state after a loop body that         *)
(* returned a repetition, last.completed_rep is that repetition (of stream *)
(* A = last.view_name) and last.other the entry of the other stream B that *)
(* was looked up.                                                          *)
(***************************************************************************)
Matched(completed, other) ==
  /\ other # None
  /\ Abs(Val(other).rep.start_frame - completed.start_frame) < SYNC_FRAME_THRESHOLD

NoPending == [v \in Views |-> None]

\* C1: when stream A completes a repetition the counter goes up by one iff
\* stream B has a pending repetition that began less than
\* SYNC_FRAME_THRESHOLD frames away and both are complete; otherwise it is
\* unchanged.
C1_ConfirmedIffBothComplete ==
  [][(Stepped /\ last'.completed_rep # None) =>
       confirmed_reps' =
         IF /\ Matched(Val(last'.completed_rep), last'.other)
            /\ Val(last'.completed_rep).is_complete
            /\ Val(last'.other).rep.is_complete
         THEN confirmed_reps + 1
         ELSE confirmed_reps]_vars

\* C2: no repetition of either stream takes part in more than one increment
\* of the counter, so a matched pair raises it by one in total.
C2_AtMostOneConfirmationPerRepetition == credited.twice = {}

\* C3: while one of the two streams has completed no repetition the counter
\* is 0.
C3_OneStreamNeverConfirms ==
  (\E v \in DOMAIN rules : rules[v].repetitions = <<>>) => confirmed_reps = 0

\* C4: a repetition of stream A completed while stream B has no pending
\* repetition within SYNC_FRAME_THRESHOLD frames (none, or one too far away)
\* is in A's pending slot after the step.
C4_UnmatchedStaysPending ==
  [][(Stepped /\ last'.completed_rep # None
        /\ ~Matched(Val(last'.completed_rep), last'.other)) =>
       /\ recent_rep_by_view'[last'.view_name] # None
       /\ Val(recent_rep_by_view'[last'.view_name]).rep = Val(last'.completed_rep)]_vars

\* C5: after a repetition of stream A was matched with a pending repetition
\* of stream B that began close to it, both pending slots are empty, whether
\* the pair was confirmed or rejected.
C5_MatchedPairCleared ==
  (enable_dual_view /\ last.completed_rep # None
     /\ Matched(Val(last.completed_rep), last.other))
  => recent_rep_by_view = NoPending

\* C5 witness: a matched pair that was rejected, the pending one incomplete
C5_Witness ==
  /\ enable_dual_view
  /\ last.completed_rep # None
  /\ Matched(Val(last.completed_rep), last.other)
  /\ Val(last.completed_rep).is_complete
  /\ ~Val(last.other).rep.is_complete
  /\ recent_rep_by_view = NoPending

(***************************************************************************)
(* Extremum detection and the history.                                     *)
(***************************************************************************)
\* the examined sample is strictly below its neighbours on both sides
StrictValley(h) ==
  /\ Len(h) >= 2 * PEAK_DETECTION_WINDOW + 1
  /\ \A k \in 1..PEAK_DETECTION_WINDOW :
       /\ h[Candidate(h) - k].angle > h[Candidate(h)].angle
       /\ h[Candidate(h) + k].angle > h[Candidate(h)].angle

\* the peak fields were written or a repetition was returned
PeakEvent(e, e2, ret) ==
  \/ e2.last_peak_frame # e.last_peak_frame
  \/ e2.last_peak_angle # e.last_peak_angle
  \/ ret # None

\* a valley was recorded: the valley fields were written and hold a sample
ValleyEvent(e, e2) ==
  /\ e2.last_valley_frame >= 0
  /\ \/ e2.last_valley_frame # e.last_valley_frame
     \/ e2.last_valley_angle # e.last_valley_angle

\* C11: one ingest appends at most one repetition to the log, and it never
\* both acts on a peak (writes the peak fields or returns a repetition) and
\* records a valley; the examined sample is never both a strict maximum and
\* a strict minimum.
C11_OneExtremumPerSample ==
  [][Stepped =>
       LET e == rules[last'.view_name]
           e2 == rules'[last'.view_name]
           h2 == e2.angle_history
       IN  /\ Len(e2.repetitions) <= Len(e.repetitions) + 1
           /\ ~(PeakEvent(e, e2, last'.completed_rep) /\ ValleyEvent(e, e2))
           /\ ~(StrictPeak(h2) /\ StrictValley(h2))
           /\ ValleyEvent(e, e2) =>
                /\ e2.last_peak_frame = e.last_peak_frame
                /\ e2.last_peak_angle = e.last_peak_angle
                /\ e2.repetitions = e.repetitions
           /\ (PeakEvent(e, e2, last'.completed_rep) /\ last'.completed_rep = None) =>
                /\ e2.last_valley_frame = e.last_valley_frame
                /\ e2.last_valley_angle = e.last_valley_angle]_vars

\* C11 witness: the latest ingest recorded its candidate as the valley while
\* a peak recorded earlier is still held
C11_Witness ==
  /\ last.view_name # ""
  /\ LET e == rules[last.view_name]
         h == e.angle_history
     IN  /\ StrictValley(h)
         /\ h[Len(h)].frame = last.frame_idx
         /\ e.last_valley_frame = h[Candidate(h)].frame
         /\ e.last_peak_frame >= 0
         /\ e.last_peak_frame < e.last_valley_frame

\* a sample of the window around the examined one has the examined value
TiedNeighbour(h) ==
  /\ Len(h) >= 2 * PEAK_DETECTION_WINDOW + 1
  /\ \E k \in 1..PEAK_DETECTION_WINDOW :
       \/ h[Candidate(h) - k].angle = h[Candidate(h)].angle
       \/ h[Candidate(h) + k].angle = h[Candidate(h)].angle

\* the peak and valley fields and the log
Extrema(e) ==
  <<e.last_peak_frame, e.last_peak_angle, e.last_valley_frame,
    e.last_valley_angle, e.repetitions>>

\* C12: the examined sample is taken for a maximum exactly when it is
\* strictly above every other sample of its window, and for a minimum
\* exactly when it is strictly below every one of them; with an equal
\* neighbour the ingest leaves the peak fields, the valley fields and the log
\* alone, and a signal that was constant so far has produced nothing.
C12_StrictExtremum ==
  [][Stepped =>
       LET e == rules[last'.view_name]
           e2 == rules'[last'.view_name]
           h2 == e2.angle_history
           ingested == h2 # e.angle_history
           check_idx == Len(h2) - PEAK_DETECTION_WINDOW - 1
       IN  /\ is_local_maximum(h2, check_idx) <=> StrictPeak(h2)
           /\ is_local_minimum(h2, check_idx) <=> StrictValley(h2)
           /\ PeakEvent(e, e2, last'.completed_rep) <=> (ingested /\ StrictPeak(h2))
           /\ ValleyEvent(e, e2) <=> (ingested /\ StrictValley(h2))
           /\ TiedNeighbour(h2) => Extrema(e2) = Extrema(e)
           /\ (/\ Len(h2) < HISTORY_CAPACITY
               /\ \A k \in DOMAIN h2 : h2[k].angle = h2[1].angle)
              => Extrema(e2) = Extrema(NewRules)]_vars

\* C12 witness: the latest ingest examined a sample that ties with a
\* neighbour and is below none, and no peak was taken
C12_Witness ==
  /\ last.view_name # ""
  /\ LET e == rules[last.view_name]
         h == e.angle_history
     IN  /\ TiedNeighbour(h)
         /\ h[Len(h)].frame = last.frame_idx
         /\ \A k \in 1..PEAK_DETECTION_WINDOW :
              /\ h[Candidate(h) - k].angle <= h[Candidate(h)].angle
              /\ h[Candidate(h) + k].angle <= h[Candidate(h)].angle
         /\ \E k \in 1..PEAK_DETECTION_WINDOW :
              h[Candidate(h) - k].angle < h[Candidate(h)].angle
         /\ last.completed_rep = None
         /\ e.last_peak_frame # h[Candidate(h)].frame

\* C13: the history never holds more than HISTORY_CAPACITY entries; an
\* ingest into a full history removes the oldest entry and only it, any
\* other ingest removes nothing, and the entries that stay keep their order
\* with the new sample last.
C13_HistoryBounded ==
  [][Stepped =>
       LET h == rules[last'.view_name].angle_history
           h2 == rules'[last'.view_name].angle_history
           kept == IF Len(h) = HISTORY_CAPACITY THEN Tail(h) ELSE h
       IN  /\ Len(h2) <= HISTORY_CAPACITY
           /\ h2 # h =>
                /\ Len(h2) = Len(kept) + 1
                /\ SubSeq(h2, 1, Len(kept)) = kept
                /\ h2[Len(h2)].frame = last'.frame_idx
           /\ \A k \in 1..(Len(h2) - 1) : h2[k].frame < h2[k + 1].frame]_vars

\* C13 witness: the history is full and the sample of the recorded peak has
\* been removed from its front
C13_Witness ==
  \E v \in DOMAIN rules :
    LET e == rules[v]
    IN  /\ Len(e.angle_history) = HISTORY_CAPACITY
        /\ e.last_peak_frame >= 0
        /\ e.last_peak_frame < e.angle_history[1].frame

(***************************************************************************)
(* The repetition records.                                                 *)
(***************************************************************************)
\* C14: every repetition of every log has min_angle <= max_angle,
\* rom = max_angle - min_angle and rom >= 0, and so has the repetition the
\* latest ingest returned.
C14_RomIsSpan ==
  /\ \A v \in DOMAIN rules : \A k \in DOMAIN rules[v].repetitions :
       LET rep == rules[v].repetitions[k]
       IN  /\ rep.min_angle <= rep.max_angle
           /\ rep.rom = rep.max_angle - rep.min_angle
           /\ rep.rom >= 0
  /\ last.completed_rep # None =>
       /\ Val(last.completed_rep).min_angle <= Val(last.completed_rep).max_angle
       /\ Val(last.completed_rep).rom =
            Val(last.completed_rep).max_angle - Val(last.completed_rep).min_angle
       /\ Val(last.completed_rep).rom >= 0

\* C14 witness: a log holds a repetition with a positive range
C14_Witness ==
  \E v \in DOMAIN rules : \E k \in DOMAIN rules[v].repetitions :
    /\ rules[v].repetitions[k].rom > 0
    /\ rules[v].repetitions[k].min_angle < rules[v].repetitions[k].max_angle

\* C15: in every repetition of every log, and in the one the latest ingest
\* returned, the errors list is empty exactly when is_complete is true.
C15_ErrorsIffIncomplete ==
  /\ \A v \in DOMAIN rules : \A k \in DOMAIN rules[v].repetitions :
       (rules[v].repetitions[k].errors = <<>>) <=> rules[v].repetitions[k].is_complete
  /\ last.completed_rep # None =>
       ((Val(last.completed_rep).errors = <<>>) <=> Val(last.completed_rep).is_complete)

\* C15 witness: a log holds an incomplete repetition with an error and a
\* complete one without
C15_Witness ==
  \E v \in DOMAIN rules : \E k, m \in DOMAIN rules[v].repetitions :
    /\ ~rules[v].repetitions[k].is_complete
    /\ rules[v].repetitions[k].errors # <<>>
    /\ rules[v].repetitions[m].is_complete
    /\ rules[v].repetitions[m].errors = <<>>

(***************************************************************************)
(* The query methods.                                                      *)
(***************************************************************************)
\* the (low, high) pairs of the ROM threshold table of a view
RomEntries(view) ==
  IF view = "front" THEN {<<50, 150>>, <<50, 160>>} ELSE {<<10, 140>>, <<20, 160>>}

Covered(entry, min_angle, max_angle) ==
  min_angle <= entry[1] + 20 /\ max_angle >= entry[2] - 20

\* C16: for every min_angle and max_angle and for both tables,
\* _check_rom_thresholds returns true exactly when max_angle - min_angle is
\* at least 100 and some entry (low, high) of the table has
\* min_angle <= low + 20 and max_angle >= high - 20.
C16_RomScoring ==
  (call.fn = "_check_rom_thresholds" /\ call.result # None) =>
    (Val(call.result) <=>
       /\ call.max_angle - call.min_angle >= 100
       /\ \E entry \in RomEntries(call.view) :
            Covered(entry, call.min_angle, call.max_angle))

\* C16 witness: a range was accepted that covers the thresholds of one joint
\* and not those of another
C16_Witness ==
  /\ call.fn = "_check_rom_thresholds"
  /\ call.result = Some(TRUE)
  /\ \E entry \in RomEntries(call.view) :
       ~Covered(entry, call.min_angle, call.max_angle)

\* the joints of the angle-range table of a view with their min and max
RangeEntries(view) ==
  IF view = "front"
  THEN {<<"left_shoulder", 35, 180>>, <<"right_shoulder", 35, 180>>,
        <<"left_elbow", 35, 180>>, <<"right_elbow", 35, 180>>}
  ELSE {<<"left_shoulder", 0, 160>>, <<"left_elbow", 8, 180>>,
        <<"left_hip", 100, 133>>}

\* the dict has an angle for the joint
Present(angles, j) == j \in DOMAIN angles /\ angles[j] # None

\* C17: has_angle_errors returns true exactly when some joint of the view's
\* range table has an angle in the dict that is below its min or above its
\* max; a joint whose angle is None, a joint without a key and a joint
\* outside the table do not count.
C17_HasAngleErrors ==
  (call.fn = "has_angle_errors" /\ call.result # None) =>
    (Val(call.result) <=>
       \E entry \in RangeEntries(call.view) :
         /\ Present(call.angles, entry[1])
         /\ \/ Val(call.angles[entry[1]]) < entry[2]
            \/ Val(call.angles[entry[1]]) > entry[3])

\* C17 witness: false was returned for a front-view dict with a None
\* shoulder, an elbow on its min and a hip, which the front table lacks,
\* outside the side-view range
C17_Witness ==
  /\ call.fn = "has_angle_errors"
  /\ call.view = "front"
  /\ call.result = Some(FALSE)
  /\ DOMAIN call.angles = {"left_shoulder", "left_elbow", "left_hip"}
  /\ call.angles["left_shoulder"] = None
  /\ call.angles["left_elbow"] = Some(35)
  /\ call.angles["left_hip"] = Some(99)

\* the status the dict gives a joint whose range is min..max
StatusOf(angles, entry) ==
  IF ~Present(angles, entry[1]) THEN "missing"
  ELSE IF entry[2] <= Val(angles[entry[1]]) /\ Val(angles[entry[1]]) <= entry[3]
       THEN "ok"
       ELSE "error"

RomTotal(log) ==
  LET S[k \in 0..Len(log)] == IF k = 0 THEN 0 ELSE S[k - 1] + log[k].rom
  IN  S[Len(log)]

\* C19: the summary of a log has total_reps = its length, complete_reps =
\* the number of its entries with is_complete, incomplete_reps = total_reps
\* - complete_reps and avg_rom = the sum of the rom of its entries over its
\* length; for the empty log it is 0, 0, 0 and 0.0.
C19_SummaryCounts ==
  (call.fn = "get_repetition_summary" /\ call.result # None) =>
    LET log == rules[call.view].repetitions
        summary == Val(call.result)
    IN  /\ summary.total_reps = Len(log)
        /\ summary.complete_reps = Len(SelectSeq(log, LAMBDA rep : rep.is_complete))
        /\ summary.incomplete_reps = summary.total_reps - summary.complete_reps
        /\ log # <<>> => summary.avg_rom = <<RomTotal(log), Len(log)>>
        /\ log = <<>> =>
             /\ summary.total_reps = 0
             /\ summary.complete_reps = 0
             /\ summary.incomplete_reps = 0
             /\ summary.avg_rom = <<0, 1>>

\* C19 witness: the summary of a log of a complete and an incomplete
\* repetition with different ranges
C19_Witness ==
  /\ call.fn = "get_repetition_summary"
  /\ call.result # None
  /\ Val(call.result).total_reps = 2
  /\ Val(call.result).complete_reps = 1
  /\ Val(call.result).incomplete_reps = 1
  /\ LET log == rules[call.view].repetitions
     IN  log[1].rom # log[2].rom

\* C20: a call of get_repetition_summary leaves the log, the history and
\* the peak and valley fields of every engine as they were, and a call that
\* follows another one on the same engine returns what that one returned.
C20_SummaryReadOnly ==
  [][call' # call =>
       /\ call'.fn = "get_repetition_summary"
       /\ rules' = rules
       /\ (call.fn = "get_repetition_summary" /\ call'.view = call.view) =>
            call'.result = call.result]_vars

\* C20 witness: the summary of a log that is not empty was taken twice
C20_Witness ==
  /\ call.fn = "get_repetition_summary"
  /\ call.n = 2
  /\ Val(call.result).total_reps >= 1
  /\ rules[call.view].repetitions # <<>>

(***************************************************************************)
(* Construction, data gaps and the two engines.                            *)
(***************************************************************************)
\* the spellings of front and of side among the strings the constructor gets
FrontSpellings ==
  {<<"f", "r", "o", "n", "t">>, <<"F", "R", "O", "N", "T">>,
   <<"F", "r", "o", "n", "t">>}

SideSpellings ==
  {<<"s", "i", "d", "e">>, <<"S", "I", "D", "E">>, <<"s", "i", "d", "E">>}

\* the object has the tables and the primary joints of the view and the
\* state of a fresh engine
FreshEngineOf(obj, view) ==
  /\ obj.raised = None
  /\ {<<j, obj.angle_ranges[j][1], obj.angle_ranges[j][2]>> :
        j \in DOMAIN obj.angle_ranges} = RangeEntries(view)
  /\ {obj.rom_thresholds[j] : j \in DOMAIN obj.rom_thresholds} = RomEntries(view)
  /\ obj.primary_joints =
       IF view = "front"
       THEN <<"left_shoulder", "right_shoulder", "left_elbow", "right_elbow">>
       ELSE <<"left_shoulder", "left_elbow">>
  /\ obj.state.angle_history = <<>>
  /\ obj.state.repetitions = <<>>
  /\ obj.state.last_valley_frame = -1
  /\ obj.state.last_valley_angle = None

\* C21: the constructor raises for every view type that is not front or side
\* in some letter case and then builds no object; for front and for side it
\* builds an engine with that view's range table, ROM table and primary
\* joints, an empty history, an empty log and no open valley.
C21_UnknownViewRaises ==
  (call.fn = "__init__" /\ call.result # None) =>
    IF call.view_type \in FrontSpellings
    THEN FreshEngineOf(Val(call.result), "front")
    ELSE IF call.view_type \in SideSpellings
    THEN FreshEngineOf(Val(call.result), "side")
    ELSE /\ Val(call.result).raised = Some("ValueError")
         /\ DOMAIN Val(call.result) = {"raised"}

\* C21 witness: the constructor raised for a string that begins like front
C21_Witness ==
  /\ call.fn = "__init__"
  /\ call.view_type = <<"f", "r", "o", "n", "t", "s">>
  /\ call.result # None
  /\ Val(call.result).raised # None

\* no primary joint of the view has an angle in the dict
DataGap(view, angles) ==
  \A j \in IF view = "front"
           THEN {"left_shoulder", "right_shoulder", "left_elbow", "right_elbow"}
           ELSE {"left_shoulder", "left_elbow"} :
    ~Present(angles, j)

\* C22: a frame in which no primary joint of the view has an angle, the
\* empty dict included, makes the ingest return None and leaves the history,
\* the peak and valley fields and the log of the engine as they were.
C22_DataGapIsNoOp ==
  [][(Stepped /\ DataGap(last'.view_name, last'.angles)) =>
       /\ last'.completed_rep = None
       /\ rules' = rules]_vars

\* C22 witness: a repetition was returned whose span holds a frame that left
\* no sample, with the valley sample still in the history
C22_Witness ==
  /\ last.completed_rep # None
  /\ LET h == rules[last.view_name].angle_history
         rep == Val(last.completed_rep)
     IN  /\ \E k \in DOMAIN h : h[k].frame = rep.start_frame
         /\ \E f \in rep.start_frame..rep.end_frame :
              \A k \in DOMAIN h : h[k].frame # f

\* C23: a loop body run for one view leaves the history, the peak and valley
\* fields and the log of the engine of the other view as they were.
C23_EnginesIndependent ==
  [][Stepped =>
       \A v \in DOMAIN rules : v # last'.view_name => rules'[v] = rules[v]]_vars

\* C23 witness: the latest body returned a repetition for one view while the
\* engine of the other view holds a different log and a history of its own
C23_Witness ==
  /\ last.completed_rep # None
  /\ \E v \in DOMAIN rules :
       /\ v # last.view_name
       /\ rules[v].angle_history # <<>>
       /\ rules[v].repetitions # rules[last.view_name].repetitions
       /\ rules[v].repetitions # <<>>

(***************************************************************************)
(* The stream client.                                                      *)
(***************************************************************************)
\* C24: when the connection attempts of a thread have failed
\* max_consecutive_errors times in a row, by an exception, by a status other
\* than 200 or by a connection closed before it delivered anything, the
\* thread has left its loop and is_running is false.
C24_StopsAfterMaxFailures ==
  [][\A t \in DOMAIN client.threads :
       (/\ client.threads[t].failures < max_consecutive_errors
        /\ client'.threads[t].failures >= max_consecutive_errors)
       => (client'.threads[t].pc = "done" /\ ~client'.is_running)]_vars

(***************************************************************************)
(* The speech listener.                                                    *)
(***************************************************************************)
\* the module state that start_listening sets up
Listening(m) ==
  <<m.callback, m.backend, m.capture, m.worker_thread, m.running, m.workers,
    m.backends, m.captures>>

\* C25: start_listening while _running is set raises Already listening and
\* leaves the callback, the backend, the capture, the worker thread and the
\* flag as they were; stop_listening while _running is not set changes
\* nothing and raises nothing.
C25_AlreadyListening ==
  [][stt'.tick # stt.tick =>
       /\ (stt'.api = "start_listening" /\ stt.running) =>
            /\ stt'.raised = Some("Already listening")
            /\ Listening(stt') = Listening(stt)
       /\ (stt'.api = "stop_listening" /\ ~stt.running) =>
            /\ stt'.raised = None
            /\ Listening(stt') = Listening(stt)]_vars

\* C25 witness: start_listening has raised Already listening while a worker
\* was reading
C25_Witness ==
  /\ stt.api = "start_listening"
  /\ stt.raised = Some("Already listening")
  /\ stt.running
  /\ \E w \in DOMAIN stt.workers : stt.workers[w].pc = "read"

\* C26: once stop_listening was called while listening, the worker of that
\* session ends: it has then flushed its backend once and its capture is
\* stopped; no backend is flushed twice, no backend has its flushed result
\* handed to the callback twice, and no partial result is handed over after
\* a flushed one.
C26_StopEndsWorker ==
  /\ \A w \in 1..MaxBackends :
       (w \in DOMAIN stt.workers /\ stt.workers[w].stop_requested)
         ~> (/\ w \in DOMAIN stt.workers
             /\ stt.workers[w].pc = "done"
             /\ stt.backends[stt.workers[w].backend].flushes = 1
             /\ ~stt.captures[stt.workers[w].capture].open)
  /\ [](\A b \in DOMAIN stt.backends :
          /\ stt.backends[b].flushes <= 1
          /\ stt.backends[b].finals <= 1
          /\ ~stt.backends[b].late_partial)

(***************************************************************************)
(* Valleys, spans and the detection lag.                                   *)
(***************************************************************************)
\* C27: an ingest that finds a local minimum makes it the open valley,
\* whether or not a valley was open, and a returned repetition starts at the
\* frame of the valley that was open when it was returned; so after two
\* valleys without a peak between them the repetition starts at the later.
C27_LaterValleyWins ==
  [][Stepped =>
       LET e == rules[last'.view_name]
           e2 == rules'[last'.view_name]
           h2 == e2.angle_history
       IN  /\ (h2 # e.angle_history /\ StrictValley(h2)) =>
                /\ e2.last_valley_frame = h2[Candidate(h2)].frame
                /\ e2.last_valley_angle = Some(h2[Candidate(h2)].angle)
           /\ last'.completed_rep # None =>
                Val(last'.completed_rep).start_frame = e.last_valley_frame]_vars

\* C27 witness: the latest ingest replaced an open valley by a later one
C27_Witness ==
  /\ last.view_name # ""
  /\ last.completed_rep = None
  /\ last.valley_before >= 0
  /\ rules[last.view_name].last_valley_frame > last.valley_before
  /\ rules[last.view_name].repetitions = <<>>

\* the angles of the samples of a history whose frame lies in first..final
SpanAngles(h, first, final) ==
  {h[k].angle : k \in {n \in DOMAIN h : first <= h[n].frame /\ h[n].frame <= final}}

\* C28: the min_angle and max_angle of a returned repetition are the least
\* and the greatest angle among the samples that are in the history when it
\* is returned and whose frame lies between start_frame and end_frame, both
\* included.
C28_MinMaxOverSpan ==
  [][(Stepped /\ last'.completed_rep # None) =>
       LET rep == Val(last'.completed_rep)
           span == SpanAngles(rules'[last'.view_name].angle_history,
                              rep.start_frame, rep.end_frame)
       IN  /\ rep.min_angle \in span
           /\ rep.max_angle \in span
           /\ \A a \in span : rep.min_angle <= a /\ a <= rep.max_angle]_vars

\* C28 witness: a repetition was returned whose span holds three samples of
\* the history, the middle one strictly between the other two
C28_Witness ==
  /\ last.completed_rep # None
  /\ LET rep == Val(last.completed_rep)
         h == rules[last.view_name].angle_history
     IN  \E k \in DOMAIN h :
           /\ k + 2 \in DOMAIN h
           /\ h[k].frame = rep.start_frame
           /\ h[k + 2].frame = rep.end_frame
           /\ h[k].angle < h[k + 1].angle
           /\ h[k + 1].angle < h[k + 2].angle
           /\ rep.min_angle = h[k].angle
           /\ rep.max_angle = h[k + 2].angle

\* C29: an ingest acts on one sample only, the one PEAK_DETECTION_WINDOW
\* places behind the sample just appended: a maximum or a minimum there is
\* acted on by this very ingest, a peak or a valley it records and a
\* repetition it returns carry the frame of that sample, and that frame lies
\* before the frame just ingested.
C29_FixedLag ==
  [][(Stepped /\ rules'[last'.view_name].angle_history
                   # rules[last'.view_name].angle_history) =>
       LET e == rules[last'.view_name]
           e2 == rules'[last'.view_name]
           h2 == e2.angle_history
           lagged == h2[Len(h2) - PEAK_DETECTION_WINDOW]
           ret == last'.completed_rep
       IN  /\ h2[Len(h2)].frame = last'.frame_idx
           /\ StrictPeak(h2) =>
                \/ ret # None /\ Val(ret).end_frame = lagged.frame
                \/ ret = None /\ e2.last_peak_frame = lagged.frame
           /\ StrictValley(h2) => e2.last_valley_frame = lagged.frame
           /\ ret # None =>
                /\ Val(ret).end_frame = lagged.frame
                /\ Val(ret).end_frame < last'.frame_idx
           /\ e2.last_peak_frame # e.last_peak_frame =>
                /\ e2.last_peak_frame = lagged.frame
                /\ e2.last_peak_angle = Some(lagged.angle)
           /\ ValleyEvent(e, e2) =>
                /\ e2.last_valley_frame = lagged.frame
                /\ e2.last_valley_angle = Some(lagged.angle)]_vars

\* C29 witness: a repetition was returned for a peak that is followed by a
\* frame without a sample, so that more than PEAK_DETECTION_WINDOW frames lie
\* between its end and the frame just ingested
C29_Witness ==
  /\ last.completed_rep # None
  /\ LET h == rules[last.view_name].angle_history
     IN  /\ h[Len(h)].frame = last.frame_idx
         /\ h[Len(h) - PEAK_DETECTION_WINDOW].frame = Val(last.completed_rep).end_frame
         /\ Val(last.completed_rep).end_frame < last.frame_idx - PEAK_DETECTION_WINDOW

\* the rules the repetition returned by the latest ingest fails: the ROM
\* floor, the coverage of some joint's thresholds, and the technique rule
FailedRules ==
  LET rep == Val(last.completed_rep)
  IN  (IF rep.max_angle - rep.min_angle < MIN_ROM THEN {"rom_floor"} ELSE {})
      \cup (IF \E entry \in RomEntries(last.view_name) :
                  Covered(entry, rep.min_angle, rep.max_angle)
            THEN {} ELSE {"coverage"})
      \cup (IF \E f \in last.cycle_errors : f <= rep.end_frame
            THEN {"technique"} ELSE {})

\* C30: the errors list of a returned repetition holds one reason for each
\* rule the repetition fails, no two of them the same.
C30_OneReasonPerFailedRule ==
  last.completed_rep # None =>
    LET errors == Val(last.completed_rep).errors
    IN  /\ Len(errors) = Cardinality(FailedRules)
        /\ \A k, m \in DOMAIN errors : errors[k] = errors[m] => k = m

\* C31: in every step each log keeps all its entries at their positions; an
\* ingest that returns a repetition puts exactly that repetition at the end
\* of the log of its engine, and every other step leaves every log as it is.
C31_LogAppendOnly ==
  [][\A v \in DOMAIN rules :
       LET log == rules[v].repetitions
           log2 == rules'[v].repetitions
           returned == Stepped /\ last'.view_name = v /\ last'.completed_rep # None
       IN  /\ Len(log2) >= Len(log)
           /\ \A k \in DOMAIN log : log2[k] = log[k]
           /\ IF returned
              THEN log2 = Append(log, Val(last'.completed_rep))
              ELSE log2 = log]_vars

\* C31 witness: the latest ingest returned a repetition and the log of its
\* engine held another one before
C31_Witness ==
  /\ last.completed_rep # None
  /\ LET log == rules[last.view_name].repetitions
     IN  /\ Len(log) >= 2
         /\ log[Len(log)] = Val(last.completed_rep)
         /\ log[Len(log) - 1] # log[Len(log)]

\* C32: with dual view disabled the confirmed-repetition counter equals the
\* number of complete repetitions the engine has returned so far: each
\* complete repetition has raised it by one and no incomplete one has
\* changed it.
C32_SingleViewCounter ==
  ~enable_dual_view =>
    \A v \in DOMAIN rules :
      confirmed_reps =
        Cardinality({k \in DOMAIN rules[v].repetitions :
                       rules[v].repetitions[k].is_complete})

\* C33: in dual-view mode every pass of the loop body handles the view at
\* position i with the current frame_idx; the front view is handled first
\* and the side view follows with the same frame_idx, after which frame_idx
\* grows by one; the loop is left only between two iterations, and a pass
\* that returns no repetition leaves the pending slots and the counter alone.
C33_FrameSynchronous ==
  [][/\ Stepped =>
          /\ last'.view_name = view_names[i]
          /\ last'.frame_idx = frame_idx
          /\ i = 1 => /\ last'.view_name = "front"
                      /\ i' = 2 /\ frame_idx' = frame_idx
          /\ i = 2 => /\ last'.view_name = "side"
                      /\ last.view_name = "front" /\ last.frame_idx = frame_idx
                      /\ i' = 1 /\ frame_idx' = frame_idx + 1
          /\ last'.completed_rep = None =>
               /\ recent_rep_by_view' = recent_rep_by_view
               /\ confirmed_reps' = confirmed_reps
     /\ running' # running => i = 1]_vars

\* C33 witness: both views returned a repetition in the same iteration, and
\* the side view found the one the front view had stored just before
C33_Witness ==
  /\ enable_dual_view
  /\ i = 1
  /\ last.view_name = "side"
  /\ last.completed_rep # None
  /\ last.other # None
  /\ Val(last.other).frame_idx = last.frame_idx
  /\ frame_idx = last.frame_idx + 1

\* the frames an engine holds as extrema: its last peak, its open valley and
\* the start (valley) and end (peak) of every logged repetition
Reported(e) ==
  ({e.last_peak_frame, e.last_valley_frame}
     \cup {e.repetitions[k].start_frame : k \in DOMAIN e.repetitions}
     \cup {e.repetitions[k].end_frame : k \in DOMAIN e.repetitions}) \ {-1}

\* C34: the frames of the history increase from entry to entry, and every
\* ingest examines the sample that follows, in the history, the one examined
\* by the ingest before, also when the ingest evicted the oldest entry; a
\* frame it reports as an extremum is the examined one and lies after every
\* frame reported before.
C34_ExaminedOnce ==
  [][(Stepped /\ rules'[last'.view_name].angle_history
                   # rules[last'.view_name].angle_history) =>
       LET e == rules[last'.view_name]
           e2 == rules'[last'.view_name]
           h == e.angle_history
           h2 == e2.angle_history
       IN  /\ \A k \in 1..(Len(h2) - 1) : h2[k].frame < h2[k + 1].frame
           /\ EnoughSamples(h) =>
                /\ EnoughSamples(h2)
                /\ h2[Candidate(h2)] = h[Candidate(h) + 1]
                /\ h2[Candidate(h2)].frame > h[Candidate(h)].frame
           /\ \A f \in Reported(e2) \ Reported(e) :
                /\ f = h2[Candidate(h2)].frame
                /\ \A g \in Reported(e) : g < f]_vars

\* C34 witness: the history is full and has lost the valley sample of a
\* logged repetition, and the latest ingest reported the examined sample as
\* an extremum
C34_Witness ==
  /\ last.view_name \in DOMAIN rules
  /\ LET e == rules[last.view_name]
         h == e.angle_history
     IN  /\ Len(h) = HISTORY_CAPACITY
         /\ h[Len(h)].frame = last.frame_idx
         /\ \E k \in DOMAIN e.repetitions : e.repetitions[k].start_frame < h[1].frame
         /\ h[Candidate(h)].frame \in
              {e.last_peak_frame, e.last_valley_frame}

\* C35: a repetition returned by an ingest has min_angle at most the angle
\* recorded for the valley that was open before the ingest, and max_angle at
\* least the angle of the examined sample, the peak that closes it.
C35_SpanCoversValleyAndPeak ==
  [][(Stepped /\ last'.completed_rep # None) =>
       LET e == rules[last'.view_name]
           h2 == rules'[last'.view_name].angle_history
           rep == Val(last'.completed_rep)
       IN  /\ rep.min_angle <= Val(e.last_valley_angle)
           /\ rep.max_angle >= h2[Candidate(h2)].angle]_vars

\* C36: in dual-view mode the two views never both hold a pending
\* repetition; after a pass that returned a repetition and found no entry of
\* the other view, the slot of its view holds exactly that repetition
\* (whatever it held before), and after a pass that found an entry of the
\* other view both slots are empty.
C36_AtMostOnePending ==
  /\ ~(recent_rep_by_view["front"] # None /\ recent_rep_by_view["side"] # None)
  /\ (enable_dual_view /\ last.completed_rep # None) =>
       IF last.other = None
       THEN /\ recent_rep_by_view[last.view_name] =
                 Some(Pending(Val(last.completed_rep), last.frame_idx))
            /\ recent_rep_by_view[OtherView(last.view_name)] = None
       ELSE recent_rep_by_view = NoPending

\* C36 witness: a view has returned its second repetition while the other
\* view has returned none, and its slot holds the second one
C36_Witness ==
  /\ enable_dual_view
  /\ last.completed_rep # None
  /\ Len(rules[last.view_name].repetitions) >= 2
  /\ rules[OtherView(last.view_name)].repetitions = <<>>
  /\ recent_rep_by_view[last.view_name] =
       Some(Pending(Val(last.completed_rep), last.frame_idx))
  /\ Val(last.completed_rep) # rules[last.view_name].repetitions[1]

\* the threads of the client that are inside iter_content, receiving frames
Receiving(c) == {t \in DOMAIN c.threads : c.threads[t].pc = "streaming"}

\* C37: no step leads to a state in which two threads of the client receive
\* frames, and a step taken while is_running is true starts no thread.
C37_OneStreamThread ==
  [][/\ Cardinality(Receiving(client')) <= 1
     /\ client.is_running => Len(client'.threads) = Len(client.threads)]_vars

====
